---- MODULE Spec2Model ----
(***************************************************************************)
(* Print Fleet Manager: location tokens, the sync endpoints of the         *)
(* ingestion API, the usage calculation over counter readings, and the     *)
(* billing-review workflow.                                                *)
(***************************************************************************)
EXTENDS Integers, Sequences, FiniteSets, TLC

\* ------------------------------------------------------------------ bounds
NumLocs == 2
MaxTokens == 3
MaxRequests == 1
MaxPrinters == 2
MaxPayload == 1
NumIps == 2
NumMacs == 1
NumSerials == 1
MaxReadings == 2
MaxPeriodReadings == 3
MaxConsumables == 2
MaxAlerts == 2
NumCounterTypes == 2
MaxValue == 2
MaxDay == 3
SlotsPerDay == 2
MaxPrice == 2
MaxReviews == 1
MaxInvoices == 2

Locs == 1..NumLocs
Partners == {1, 2}
\* 0 stands for None / False / an absent header or field.
None == 0
Headers == 0..MaxTokens

\* Time: a Datetime is a slot of a day, a Date is a day.
Days == 1..MaxDay
DayStart(d) == d * SlotsPerDay
DayEnd(d) == d * SlotsPerDay + (SlotsPerDay - 1)
Timestamps == DayStart(1)..DayEnd(MaxDay)
\* datetime.now() of a request that carries no timestamp.
Now == DayEnd(MaxDay)

\* counter.type rows: each has a unique OID and a code.
CounterTypes == 1..NumCounterTypes
Absent == -1
CounterValues == [CounterTypes -> {Absent} \cup (0..MaxValue)]
NoCounters == [c \in CounterTypes |-> Absent]

VARIABLES
    partner_id,            \* printer.location.partner_id
    access_token,          \* printer.location.access_token (None: no token)
    token_active,          \* printer.location.token_active
    is_active,             \* printer.location.is_active
    token_last_used,       \* printer.location.token_last_used (None: empty)
    token_requests_count,  \* printer.location.token_requests_count
    issued,                \* number of tokens _generate_token has produced
    old_tokens,            \* the old_token values action_generate_token replaced
    printers,              \* printer.device rows, indexed by id
    readings,              \* printer.reading rows with their counters
    consumables,           \* printer.consumable rows
    alerts,                \* printer.alert rows
    last,                  \* the last HTTP exchange: X-Location-Token header, status
    prices,                \* partner.counter.price rows: unit_price by partner and type
    usage,                 \* the last call of calculate_usage_by_printer and its result
    reviews,               \* printer.billing.review rows with lines and counters
    invoices,              \* account.move rows created from reviews
    raised                 \* the exception the last billing action raised ("" if none)

locvars == <<partner_id, access_token, token_active, is_active,
             token_last_used, token_requests_count, issued, old_tokens>>
datavars == <<printers, readings, consumables, alerts>>
billvars == <<prices, usage, reviews, invoices, raised>>
vars == <<locvars, datavars, last, billvars>>

NoExchange == [token |-> None, status |-> 0]

\* ------------------------------------------------------------ token check
\* The decorator's decision: the status of the response and, when the
\* request is let through, the location stored on the request.
validate_ignoring_token_active(token) ==
    IF token = None
    THEN [status |-> 401, location |-> None]
    ELSE LET found == {l \in Locs : access_token[l] = token /\ is_active[l]}
         IN IF found = {}
            THEN [status |-> 403, location |-> None]
            ELSE [status |-> 200, location |-> CHOOSE l \in found : \A m \in found : l <= m]

validate_location_token(token) ==
    IF token = None
    THEN [status |-> 401, location |-> None]
    ELSE LET found == {l \in Locs : access_token[l] = token /\ is_active[l]}
         IN IF found = {}
            THEN [status |-> 403, location |-> None]
            ELSE LET location == CHOOSE l \in found : \A m \in found : l <= m
                 IN IF ~token_active[location]
                    THEN [status |-> 403, location |-> None]
                    ELSE [status |-> 200, location |-> location]

\* update_token_usage: the write the decorator makes before the handler runs.
update_token_usage(l) ==
    /\ token_last_used' = [token_last_used EXCEPT ![l] = 1]
    /\ token_requests_count' = [token_requests_count EXCEPT ![l] = @ + 1]

\* A rejected request: the wrapper returns the 401 or 403 response before
\* anything is written and without calling the handler.
Rejected(token) ==
    /\ validate_location_token(token).status # 200
    /\ last' = [token |-> token, status |-> validate_location_token(token).status]
    /\ UNCHANGED <<locvars, datavars>>

\* An authorized request: usage statistics are updated, then the handler runs.
Authorized(token) ==
    LET v == validate_location_token(token)
    IN /\ v.status = 200
       /\ token_requests_count[v.location] < MaxRequests
       /\ update_token_usage(v.location)
       /\ last' = [token |-> token, status |-> 200]
       /\ UNCHANGED <<partner_id, access_token, token_active, is_active,
                      issued, old_tokens>>

\* --------------------------------------------------------- token lifecycle
\* _generate_token: secrets.token_urlsafe(32) never repeats a value; the
\* tokens are numbered in the order they are produced.
reuse_old_token(l) == IF access_token[l] # None THEN access_token[l] ELSE issued + 1

_generate_token(l) == issued + 1

action_generate_token(l) ==
    /\ issued < MaxTokens
    /\ access_token' = [access_token EXCEPT ![l] = _generate_token(l)]
    /\ issued' = issued + 1
    /\ old_tokens' = IF access_token[l] # None
                     THEN old_tokens \cup {access_token[l]}
                     ELSE old_tokens
    /\ token_last_used' = [token_last_used EXCEPT ![l] = None]
    /\ token_requests_count' = [token_requests_count EXCEPT ![l] = 0]
    /\ last' = NoExchange
    /\ UNCHANGED <<partner_id, token_active, is_active, datavars>>

deactivate_without_effect(l) ==
    /\ last' = NoExchange
    /\ UNCHANGED <<locvars, datavars>>

action_deactivate_token(l) ==
    /\ token_active' = [token_active EXCEPT ![l] = FALSE]
    /\ last' = NoExchange
    /\ UNCHANGED <<partner_id, access_token, is_active, token_last_used,
                   token_requests_count, issued, old_tokens, datavars>>

action_activate_token(l) ==
    IF access_token[l] = None
    THEN action_generate_token(l)
    ELSE /\ token_active' = [token_active EXCEPT ![l] = TRUE]
         /\ last' = NoExchange
         /\ UNCHANGED <<partner_id, access_token, is_active, token_last_used,
                        token_requests_count, issued, old_tokens, datavars>>

\* ------------------------------------------------------------ sync_printers
PrinterItems == [ip_address : 0..NumIps, mac_address : 0..NumMacs,
                 serial_number : 0..NumSerials]

\* search([('location_id', '=', location), (field, '=', value)], limit=1):
\* the id of the matching printer, or None.
search_any_location(ps, location, field, value) ==
    LET found == {i \in DOMAIN ps : ps[i][field] = value}
    IN IF found = {} THEN None ELSE CHOOSE i \in found : \A j \in found : i <= j

search_printer(ps, location, field, value) ==
    LET found == {i \in DOMAIN ps : ps[i].location_id = location /\ ps[i][field] = value}
    IN IF found = {} THEN None ELSE CHOOSE i \in found : \A j \in found : i <= j

\* _prepare_printer_values: the fields the payload carries; a None value is
\* dropped, so on an update the stored value is kept.
_prepare_printer_values(data, location, old) ==
    [location_id |-> location,
     ip_address |-> data.ip_address,
     mac_address |-> IF data.mac_address # None THEN data.mac_address ELSE old.mac_address,
     serial_number |-> IF data.serial_number # None THEN data.serial_number
                       ELSE old.serial_number]

NewPrinter == [location_id |-> None, ip_address |-> None, mac_address |-> None,
               serial_number |-> None]

\* _sql_constraints of printer.device: UNIQUE(location_id, serial_number) and
\* UNIQUE(location_id, ip_address); a NULL serial number never collides.
PrinterUnique(ps, id, row) ==
    \A j \in DOMAIN ps :
        (j # id /\ ps[j].location_id = row.location_id) =>
            /\ ps[j].ip_address # row.ip_address
            /\ (row.serial_number # None => ps[j].serial_number # row.serial_number)

\* One pass of the loop body over printers_data.
sync_printer_item(ps, location, data) ==
    IF data.ip_address = None
    THEN ps
    ELSE LET byMac == IF data.mac_address # None
                      THEN search_printer(ps, location, "mac_address", data.mac_address)
                      ELSE None
             bySerial == IF byMac = None /\ data.serial_number # None
                         THEN search_printer(ps, location, "serial_number", data.serial_number)
                         ELSE byMac
             printer == IF bySerial = None
                        THEN search_printer(ps, location, "ip_address", data.ip_address)
                        ELSE bySerial
         IN IF printer # None
            THEN LET values == _prepare_printer_values(data, location, ps[printer])
                 IN IF PrinterUnique(ps, printer, values)
                    THEN [ps EXCEPT ![printer] = values]
                    ELSE ps
            ELSE Append(ps, _prepare_printer_values(data, location, NewPrinter))

RECURSIVE sync_printers_loop(_, _, _)
sync_printers_loop(ps, location, printers_data) ==
    IF printers_data = <<>>
    THEN ps
    ELSE sync_printers_loop(sync_printer_item(ps, location, Head(printers_data)),
                            location, Tail(printers_data))

Payloads(Items) == UNION {[1..n -> Items] : n \in 0..MaxPayload}

sync_printers(token, printers_data) ==
    /\ Authorized(token)
    /\ LET location == validate_location_token(token).location
           ps == sync_printers_loop(printers, location, printers_data)
       IN /\ Len(ps) <= MaxPrinters
          /\ printers' = ps
    /\ UNCHANGED <<readings, consumables, alerts>>

\* ------------------------------------------------------------ sync_readings
\* A reading of the payload: the legacy fields (total_pages, mono_pages, ...)
\* keyed by the counter type whose code they name, and the "counters" list
\* keyed by the counter type whose OID it names. timestamp None: not sent.
ReadingItemsOver(ips, times, values) ==
    {r \in [printer_ip : ips, timestamp : times,
            legacy : values \cup {NoCounters}, counters : values \cup {NoCounters}] :
        r.legacy = NoCounters \/ r.counters = NoCounters}

\* parse_timestamp: the timestamp sent, or datetime.now() when there is none.
parse_timestamp(timestamp) == IF timestamp = None THEN Now ELSE timestamp

\* The counters created for a reading: the legacy fields when any is
\* present, otherwise the "counters" list.
counters_to_create(reading_data) ==
    IF reading_data.legacy # NoCounters
    THEN reading_data.legacy
    ELSE reading_data.counters

\* _check_timestamp_order: no two readings of a printer share a timestamp.
ReadingUnique(rs, row) ==
    \A r \in rs : ~(r.printer_id = row.printer_id /\ r.timestamp = row.timestamp)

sync_reading_item(rs, ps, location, reading_data) ==
    IF reading_data.printer_ip = None
    THEN rs
    ELSE LET printer == search_printer(ps, location, "ip_address", reading_data.printer_ip)
             reading == [printer_id |-> printer,
                         timestamp |-> parse_timestamp(reading_data.timestamp),
                         counters |-> counters_to_create(reading_data),
                         is_billed |-> FALSE,
                         invoice_id |-> None]
         IN IF printer = None \/ ~ReadingUnique(rs, reading)
            THEN rs
            ELSE rs \cup {reading}

RECURSIVE sync_readings_loop(_, _, _, _)
sync_readings_loop(rs, ps, location, readings_data) ==
    IF readings_data = <<>>
    THEN rs
    ELSE sync_readings_loop(sync_reading_item(rs, ps, location, Head(readings_data)),
                            ps, location, Tail(readings_data))

sync_readings(token, readings_data) ==
    /\ Authorized(token)
    /\ LET location == validate_location_token(token).location
           rs == sync_readings_loop(readings, printers, location, readings_data)
       IN /\ Cardinality(rs) <= MaxReadings
          /\ readings' = rs
    /\ UNCHANGED <<printers, consumables, alerts>>

\* --------------------------------------------------------- sync_consumables
ConsumableItems == [printer_ip : 0..NumIps, supply_name : 0..1, level_percent : 1..2]

sync_consumable_item(cs, ps, location, consumable_data) ==
    IF consumable_data.printer_ip = None \/ consumable_data.supply_name = None
    THEN cs
    ELSE LET printer == search_printer(ps, location, "ip_address", consumable_data.printer_ip)
             values == [printer_id |-> printer,
                        supply_name |-> consumable_data.supply_name,
                        level_percent |-> consumable_data.level_percent]
             existing == {c \in cs : c.printer_id = printer
                                     /\ c.supply_name = consumable_data.supply_name}
         IN IF printer = None
            THEN cs
            ELSE (cs \ existing) \cup {values}

RECURSIVE sync_consumables_loop(_, _, _, _)
sync_consumables_loop(cs, ps, location, consumables_data) ==
    IF consumables_data = <<>>
    THEN cs
    ELSE sync_consumables_loop(sync_consumable_item(cs, ps, location, Head(consumables_data)),
                               ps, location, Tail(consumables_data))

sync_consumables(token, consumables_data) ==
    /\ Authorized(token)
    /\ LET location == validate_location_token(token).location
           cs == sync_consumables_loop(consumables, printers, location, consumables_data)
       IN /\ Cardinality(cs) <= MaxConsumables
          /\ consumables' = cs
    /\ UNCHANGED <<printers, readings, alerts>>

\* --------------------------------------------------------------- sync_alerts
AlertItemsOver(ips, times) ==
    [printer_ip : ips, message : 1..1, timestamp : times, resolved : BOOLEAN]

\* An unresolved alert of the printer with the same type and message in the
\* 24 hours before the new one makes the new one a duplicate.
sync_alert_item(as, ps, location, alert_data) ==
    IF alert_data.printer_ip = None
    THEN as
    ELSE LET printer == search_printer(ps, location, "ip_address", alert_data.printer_ip)
             parsed_timestamp == parse_timestamp(alert_data.timestamp)
             time_threshold == parsed_timestamp - SlotsPerDay
             existing == {i \in DOMAIN as :
                            /\ as[i].printer_id = printer
                            /\ as[i].message = alert_data.message
                            /\ as[i].timestamp >= time_threshold
                            /\ ~as[i].resolved}
         IN IF printer = None \/ existing # {}
            THEN as
            ELSE Append(as, [printer_id |-> printer,
                             message |-> alert_data.message,
                             timestamp |-> parsed_timestamp,
                             resolved |-> alert_data.resolved])

RECURSIVE sync_alerts_loop(_, _, _, _)
sync_alerts_loop(as, ps, location, alerts_data) ==
    IF alerts_data = <<>>
    THEN as
    ELSE sync_alerts_loop(sync_alert_item(as, ps, location, Head(alerts_data)),
                          ps, location, Tail(alerts_data))

sync_alerts(token, alerts_data) ==
    /\ Authorized(token)
    /\ LET location == validate_location_token(token).location
           as == sync_alerts_loop(alerts, printers, location, alerts_data)
       IN /\ Len(as) <= MaxAlerts
          /\ alerts' = as
    /\ UNCHANGED <<printers, readings, consumables>>

\* ------------------------------------------------------ usage calculation
\* counter.type: the OID is unique; the code is a short name, never an OID.
Oid(c) == c
Code(c) == NumCounterTypes + c

\* printer.device.partner_id is related to location_id.partner_id.
printer_partner_id(ps, id) == partner_id[ps[id].location_id]

Max(a, b) == IF a >= b THEN a ELSE b

\* The last of a set of readings of one printer in timestamp order.
LastByTimestamp(rs) == CHOOSE r \in rs : \A q \in rs : q.timestamp <= r.timestamp

\* get_counter_value: the value of the counter with that OID or code, or 0
\* when the reading has no such counter.
get_counter_value(reading, oid_or_code) ==
    LET counter == {c \in CounterTypes :
                       /\ reading.counters[c] # Absent
                       /\ (Oid(c) = oid_or_code \/ Code(c) = oid_or_code)}
    IN IF counter = {} THEN 0 ELSE reading.counters[CHOOSE c \in counter : TRUE]

\* Variant: the period ends at the start of date_to instead of at its end.
period_without_last_day(date_from, date_to) == DayStart(date_from)..DayStart(date_to)

\* The instants of the period: from the start of date_from to the end of
\* date_to (date_to_end).
period(date_from, date_to) == DayStart(date_from)..DayEnd(date_to)

\* Variant: the initial value is always 0, whatever was read before.
first_value_zero(rs, printer, date_from, c) == 0

\* The initial value of a counter type: its value in the last reading of the
\* printer before date_from, or 0 when there is none.
first_value(rs, printer, date_from, c) ==
    LET previous_reading == {r \in rs : /\ r.printer_id = printer
                                       /\ r.timestamp < DayStart(date_from)}
    IN IF previous_reading # {}
       THEN get_counter_value(LastByTimestamp(previous_reading), Oid(c))
       ELSE 0

\* Variant: the total is the final value, whatever the initial value is.
counter_end_as_total(last_value, first) == last_value

\* total = max(0, last_value - first_value)
total_pages_of(last_value, first) == Max(0, last_value - first)

\* The counters_data of one printer.
counters_data(rs, printer, date_from, date_to) ==
    LET readings_in_period == {r \in rs : /\ r.printer_id = printer
                                         /\ r.timestamp \in period(date_from, date_to)}
        counter_types_in_period ==
            {c \in CounterTypes : \E r \in readings_in_period : r.counters[c] # Absent}
        entry(c) ==
            LET readings_with_counter ==
                    {r \in readings_in_period : r.counters[c] # Absent}
                last_reading == LastByTimestamp(readings_with_counter)
                last_value == get_counter_value(last_reading, Oid(c))
                first == first_value(rs, printer, date_from, c)
            IN [counter_type_id |-> c,
                counter_start |-> first,
                counter_end |-> last_value,
                total_pages |-> total_pages_of(last_value, first)]
    IN {entry(c) : c \in counter_types_in_period}

\* Printer.search([('partner_id', '=', partner_id)])
printers_of_partner(ps, partner) ==
    {p \in DOMAIN ps : printer_partner_id(ps, p) = partner}

\* calculate_usage_by_printer: one entry per printer of the partner that has
\* counters_data, as a set (the order of the list is the printers' order).
calculate_usage_by_printer(rs, ps, partner, date_from, date_to) ==
    {[printer |-> p, counters |-> counters_data(rs, p, date_from, date_to)] :
        p \in {q \in printers_of_partner(ps, partner) :
                  counters_data(rs, q, date_from, date_to) # {}}}

NoUsage == [partner |-> None, date_from |-> None, date_to |-> None, result |-> {}]

\* A call of calculate_usage_by_printer on the stored readings.
CalculateUsage(partner, date_from, date_to) ==
    /\ usage' = [partner |-> partner, date_from |-> date_from, date_to |-> date_to,
                 result |-> calculate_usage_by_printer(readings, printers, partner,
                                                       date_from, date_to)]
    /\ UNCHANGED <<locvars, datavars, last, prices, reviews, invoices, raised>>

\* ------------------------------------------------------------ billing review
\* get_price_for_partner_counter: the unit price configured for the partner
\* and counter type, or 0.0 when there is no partner.counter.price row.
get_price_for_partner_counter(partner, c) ==
    IF prices[partner][c] # Absent THEN prices[partner][c] ELSE 0

\* printer.billing.review.counter._compute_totals: the stored computed
\* fields of a counter row.
_compute_totals(counter) ==
    [counter EXCEPT !.total_pages = Max(0, counter.counter_end - counter.counter_start),
                    !.subtotal = Max(0, counter.counter_end - counter.counter_start)
                                     * counter.unit_price]

\* Variant: any pair of counters is accepted.
accept_any_counters(counter) == TRUE

\* _check_counters_valid: the row is refused (ValidationError) otherwise.
_check_counters_valid(counter) ==
    /\ ~(counter.counter_start < 0)
    /\ ~(counter.counter_end < 0)
    /\ ~(counter.counter_end < counter.counter_start)

RECURSIVE SumOver(_, _)
SumOver(rows, field) ==
    IF rows = {}
    THEN 0
    ELSE LET row == CHOOSE r \in rows : TRUE
         IN row[field] + SumOver(rows \ {row}, field)

\* printer.billing.review.line._compute_totals
line_total_pages(line) == SumOver(line.counter_line_ids, "total_pages")
estimated_amount(line) ==
    IF line.include_in_invoice THEN SumOver(line.counter_line_ids, "subtotal") ELSE 0

\* The lines and counters both the wizard and action_recalculate_all create
\* from usage_data.
lines_from_usage(usage_data, partner) ==
    {[printer_id |-> printer_data.printer,
      include_in_invoice |-> TRUE,
      counter_line_ids |->
          {_compute_totals([counter_type_id |-> counter_data.counter_type_id,
                            counter_start |-> counter_data.counter_start,
                            counter_end |-> counter_data.counter_end,
                            unit_price |-> get_price_for_partner_counter(
                                               partner, counter_data.counter_type_id),
                            total_pages |-> 0,
                            subtotal |-> 0]) :
              counter_data \in printer_data.counters}] :
        printer_data \in usage_data}

counters_of(line_ids) == UNION {line.counter_line_ids : line \in line_ids}

NoError == ""
ValidationError == "El contador final no puede ser menor que el contador inicial"

\* PrinterBillingWizard.action_generate_invoice. An exception rolls the
\* transaction back: nothing of the review is stored.
wizard_action_generate_invoice(partner, date_from, date_to, group_by_location, only_not_billed) ==
    LET usage_data == calculate_usage_by_printer(readings, printers, partner,
                                                 date_from, date_to)
        line_ids == lines_from_usage(usage_data, partner)
    IN /\ IF usage_data = {}
          THEN /\ raised' = "No hay datos de uso para el período seleccionado."
               /\ UNCHANGED reviews
          ELSE IF \E counter \in counters_of(line_ids) : ~_check_counters_valid(counter)
          THEN /\ raised' = ValidationError
               /\ UNCHANGED reviews
          ELSE /\ Len(reviews) < MaxReviews
               /\ raised' = NoError
               /\ reviews' = Append(reviews,
                                [partner_id |-> partner,
                                 date_from |-> date_from,
                                 date_to |-> date_to,
                                 group_by_location |-> group_by_location,
                                 only_not_billed |-> only_not_billed,
                                 state |-> "draft",
                                 invoice_id |-> None,
                                 line_ids |-> line_ids])
       /\ UNCHANGED <<locvars, datavars, last, prices, usage, invoices>>

action_confirm(id) ==
    LET self == reviews[id]
    IN /\ IF self.line_ids = {}
          THEN /\ raised' = "Debe tener al menos una impresora en la revisión"
               /\ UNCHANGED reviews
          ELSE /\ raised' = NoError
               /\ reviews' = [reviews EXCEPT ![id].state = "confirmed"]
       /\ UNCHANGED <<locvars, datavars, last, prices, usage, invoices>>

\* line.location_name is the name of the printer's location; the locations
\* of a partner have distinct names (_check_unique_name_per_partner) and are
\* named after their number.
location_name(line) == printers[line.printer_id].location_id

\* Variant: a line per printer even when grouping by location.
lines_never_grouped(lines_to_bill) ==
    {[location_name |-> printers[line.printer_id].location_id,
      printers |-> {line.printer_id},
      quantity |-> 1,
      price_unit |-> IF line.include_in_invoice
                     THEN SumOver(line.counter_line_ids, "subtotal")
                     ELSE 0] : line \in lines_to_bill}

\* invoice_line_ids with group_by_location: a line per location name.
lines_by_location(lines_to_bill) ==
    {[location_name |-> name,
      printers |-> {line.printer_id : line \in {l \in lines_to_bill :
                                                   location_name(l) = name}},
      quantity |-> 1,
      price_unit |-> SumOver({[printer_id |-> l.printer_id,
                               estimated_amount |-> estimated_amount(l)] :
                                  l \in {k \in lines_to_bill : location_name(k) = name}},
                             "estimated_amount")] :
        name \in {location_name(line) : line \in lines_to_bill}}

\* invoice_line_ids without group_by_location: a line per printer.
lines_by_printer(lines_to_bill) ==
    {[location_name |-> location_name(line),
      printers |-> {line.printer_id},
      quantity |-> 1,
      price_unit |-> estimated_amount(line)] : line \in lines_to_bill}

\* The readings action_generate_invoice marks as billed: those of the
\* partner, not yet billed, from date_from to date_to (both as midnight).
readings_to_mark(self) ==
    {r \in readings : /\ printer_partner_id(printers, r.printer_id) = self.partner_id
                      /\ r.timestamp >= DayStart(self.date_from)
                      /\ r.timestamp <= DayStart(self.date_to)
                      /\ r.is_billed = FALSE}

\* PrinterBillingReview.action_generate_invoice
action_generate_invoice(id) ==
    LET self == reviews[id]
        lines_to_bill == {l \in self.line_ids :
                             l.include_in_invoice /\ line_total_pages(l) > 0}
        invoice == Len(invoices) + 1
    IN /\ IF self.state = "invoiced"
          THEN /\ raised' = "Esta revisión ya tiene una factura generada"
               /\ UNCHANGED <<reviews, invoices, readings>>
          ELSE IF lines_to_bill = {}
          THEN /\ raised' = "No hay impresoras con páginas para facturar"
               /\ UNCHANGED <<reviews, invoices, readings>>
          ELSE /\ Len(invoices) < MaxInvoices
               /\ raised' = NoError
               /\ invoices' = Append(invoices,
                                 [partner_id |-> self.partner_id,
                                  review |-> id,
                                  invoice_line_ids |->
                                      IF self.group_by_location
                                      THEN lines_by_location(lines_to_bill)
                                      ELSE lines_by_printer(lines_to_bill)])
               /\ readings' = IF self.only_not_billed
                              THEN {IF r \in readings_to_mark(self)
                                    THEN [r EXCEPT !.is_billed = TRUE,
                                                   !.invoice_id = invoice]
                                    ELSE r : r \in readings}
                              ELSE readings
               /\ reviews' = [reviews EXCEPT ![id].state = "invoiced",
                                             ![id].invoice_id = invoice]
       /\ UNCHANGED <<locvars, printers, consumables, alerts, last, prices, usage>>

\* PrinterBillingReview.action_recalculate_all
action_recalculate_all(id) ==
    LET self == reviews[id]
        usage_data == calculate_usage_by_printer(readings, printers, self.partner_id,
                                                 self.date_from, self.date_to)
        line_ids == lines_from_usage(usage_data, self.partner_id)
    IN /\ IF self.state # "draft"
          THEN /\ raised' = "Solo se pueden recalcular revisiones en borrador"
               /\ UNCHANGED reviews
          ELSE IF \E counter \in counters_of(line_ids) : ~_check_counters_valid(counter)
          THEN /\ raised' = ValidationError
               /\ UNCHANGED reviews
          ELSE /\ raised' = NoError
               /\ reviews' = [reviews EXCEPT ![id].line_ids = line_ids]
       /\ UNCHANGED <<locvars, datavars, last, prices, usage, invoices>>

\* A user's write of include_in_invoice on the line of a printer.
write_include_in_invoice(id, printer, value) ==
    /\ \E line \in reviews[id].line_ids :
           /\ line.printer_id = printer
           /\ line.include_in_invoice # value
           /\ reviews' = [reviews EXCEPT ![id].line_ids =
                              (@ \ {line}) \cup {[line EXCEPT !.include_in_invoice = value]}]
    /\ raised' = NoError
    /\ UNCHANGED <<locvars, datavars, last, prices, usage, invoices>>

\* PrinterBillingReview.action_cancel
action_cancel(id) ==
    LET self == reviews[id]
    IN /\ IF self.state = "invoiced"
          THEN /\ raised' = "No se puede cancelar una revisión que ya tiene factura generada"
               /\ UNCHANGED reviews
          ELSE /\ raised' = NoError
               /\ reviews' = [reviews EXCEPT ![id].state = "cancelled"]
       /\ UNCHANGED <<locvars, datavars, last, prices, usage, invoices>>

\* PrinterBillingReview.action_set_to_draft
action_set_to_draft(id) ==
    LET self == reviews[id]
    IN /\ IF self.invoice_id # None
          THEN /\ raised' = "No se puede volver a borrador una revisión con factura"
               /\ UNCHANGED reviews
          ELSE /\ raised' = NoError
               /\ reviews' = [reviews EXCEPT ![id].state = "draft"]
       /\ UNCHANGED <<locvars, datavars, last, prices, usage, invoices>>

\* ---------------------------------------------------------------- actions
BriefReadingItems == ReadingItemsOver(0..NumIps, {None}, {[c \in CounterTypes |-> 1]})
BriefAlertItems == AlertItemsOver(0..NumIps, {None})

\* Every sync route is wrapped by validate_location_token: a request it turns
\* away never reaches the handler, whatever its body.
RejectRequest == \E token \in Headers : Rejected(token) /\ UNCHANGED billvars
SyncPrinters == \E token \in Headers, data \in Payloads(PrinterItems) :
                    sync_printers(token, data) /\ UNCHANGED billvars
SyncReadingsBrief == \E token \in Headers, data \in Payloads(BriefReadingItems) :
                         sync_readings(token, data) /\ UNCHANGED billvars
SyncConsumables == \E token \in Headers, data \in Payloads(ConsumableItems) :
                       sync_consumables(token, data) /\ UNCHANGED billvars
SyncAlerts == \E token \in Headers, data \in Payloads(BriefAlertItems) :
                  sync_alerts(token, data) /\ UNCHANGED billvars
GenerateToken == \E l \in Locs : action_generate_token(l) /\ UNCHANGED billvars
DeactivateToken == \E l \in Locs : action_deactivate_token(l) /\ UNCHANGED billvars
ActivateToken == \E l \in Locs : action_activate_token(l) /\ UNCHANGED billvars

CalculateUsageCall == \E partner \in Partners, date_from \in Days, date_to \in Days :
                          CalculateUsage(partner, date_from, date_to)
\* The wizard is opened for periods up to the day before the last.
BillingDays == Days \ {MaxDay}
WizardGenerateInvoice ==
    \E partner \in Partners, date_from \in BillingDays, date_to \in BillingDays,
       group_by_location \in BOOLEAN, only_not_billed \in BOOLEAN :
        wizard_action_generate_invoice(partner, date_from, date_to,
                                       group_by_location, only_not_billed)
ReviewIds == 1..MaxReviews
Confirm == \E id \in ReviewIds : id \in DOMAIN reviews /\ action_confirm(id)
GenerateInvoice == \E id \in ReviewIds : id \in DOMAIN reviews /\ action_generate_invoice(id)
RecalculateAll == \E id \in ReviewIds : id \in DOMAIN reviews /\ action_recalculate_all(id)
Cancel == \E id \in ReviewIds : id \in DOMAIN reviews /\ action_cancel(id)
SetToDraft == \E id \in ReviewIds : id \in DOMAIN reviews /\ action_set_to_draft(id)
\* The printers of the customer whose usage is billed.
BillingFleet == <<[location_id |-> 1, ip_address |-> 1, mac_address |-> 1, serial_number |-> 1],
                  [location_id |-> 1, ip_address |-> 2, mac_address |-> 2, serial_number |-> 2],
                  [location_id |-> NumLocs, ip_address |-> 1, mac_address |-> 1,
                   serial_number |-> 1]>>
WriteIncludeInInvoice ==
    \E id \in ReviewIds, printer \in DOMAIN BillingFleet, value \in BOOLEAN :
        id \in DOMAIN reviews /\ write_include_in_invoice(id, printer, value)

\* ------------------------------------------------------------------- Init
\* Locations as create() leaves them (a token each, numbered in order, or
\* none for a location stored without one); no printer has synced yet.
PartnerOf(l) == IF l = 1 THEN 1 ELSE 2

InitLocations ==
    /\ partner_id = [l \in Locs |-> PartnerOf(l)]
    /\ access_token \in {f \in [Locs -> 0..NumLocs] :
                            \A l \in Locs : f[l] = l \/ (l = NumLocs /\ f[l] = None)}
    /\ token_active = [l \in Locs |-> TRUE]
    /\ is_active \in [Locs -> BOOLEAN]
    /\ token_last_used = [l \in Locs |-> None]
    /\ token_requests_count = [l \in Locs |-> 0]
    /\ issued = NumLocs
    /\ old_tokens = {}

\* No price configured, no usage calculated, no review, no invoice.
NoBilling ==
    /\ prices = [p \in Partners |-> [c \in CounterTypes |-> Absent]]
    /\ usage = NoUsage
    /\ reviews = <<>>
    /\ invoices = <<>>
    /\ raised = NoError

Init ==
    /\ InitLocations
    /\ printers = <<>>
    /\ readings = {}
    /\ consumables = {}
    /\ alerts = <<>>
    /\ last = NoExchange
    /\ NoBilling

Next ==
    \/ RejectRequest
    \/ SyncPrinters
    \/ SyncReadingsBrief
    \/ SyncConsumables
    \/ SyncAlerts
    \/ GenerateToken
    \/ DeactivateToken
    \/ ActivateToken

Spec == Init /\ [][Next]_vars

\* ------------------------------------------------- the endpoints on a fleet
\* Locations with their tokens in use and printers already on record: one
\* printer in the last location, and possibly a printer with the same IP,
\* MAC and serial number in the first; readings, consumables and alerts of
\* those printers may be on record.
ActiveLocations ==
    /\ partner_id = [l \in Locs |-> PartnerOf(l)]
    /\ access_token = [l \in Locs |-> l]
    /\ token_active = [l \in Locs |-> TRUE]
    /\ is_active = [l \in Locs |-> TRUE]
    /\ token_last_used = [l \in Locs |-> None]
    /\ token_requests_count = [l \in Locs |-> 0]
    /\ issued = NumLocs
    /\ old_tokens = {}

Twin(l) == [location_id |-> l, ip_address |-> 1, mac_address |-> 1, serial_number |-> 1]

InitFrame ==
    /\ ActiveLocations
    /\ printers \in {<<Twin(NumLocs)>>, <<Twin(NumLocs), Twin(1)>>}
    /\ readings \in SUBSET {[printer_id |-> p, timestamp |-> Now,
                             counters |-> [c \in CounterTypes |-> 1],
                             is_billed |-> FALSE, invoice_id |-> None] :
                                p \in DOMAIN printers}
    /\ consumables \in SUBSET {[printer_id |-> p, supply_name |-> 1, level_percent |-> 1] :
                                p \in DOMAIN printers}
    /\ alerts \in {<<>>} \cup {<<[printer_id |-> p, message |-> 1, timestamp |-> Now,
                                  resolved |-> FALSE]>> : p \in DOMAIN printers}
    /\ last = NoExchange
    /\ NoBilling

NextFrame ==
    \/ RejectRequest
    \/ SyncPrinters
    \/ SyncReadingsBrief
    \/ SyncConsumables
    \/ SyncAlerts

SpecFrame == InitFrame /\ [][NextFrame]_vars

\* ------------------------------------------------- usage over stored readings
\* The locations of a fleet, all of one customer or of a customer each.
FleetLocations(owner) ==
    /\ partner_id = owner
    /\ access_token = [l \in Locs |-> l]
    /\ token_active = [l \in Locs |-> TRUE]
    /\ is_active = [l \in Locs |-> TRUE]
    /\ token_last_used = [l \in Locs |-> None]
    /\ token_requests_count = [l \in Locs |-> 0]
    /\ issued = NumLocs
    /\ old_tokens = {}

OneCustomer == [l \in Locs |-> 1]

\* A printer.device row of location l whose IP, MAC and serial number are n.
Device(l, n) == [location_id |-> l, ip_address |-> n, mac_address |-> n, serial_number |-> n]

\* The printer.reading rows that can be on record for the printers ps.
ReadingRows(ps, times, values) ==
    {[printer_id |-> p, timestamp |-> t, counters |-> v,
      is_billed |-> FALSE, invoice_id |-> None] : p \in ps, t \in times, v \in values}

\* The sets of at most n of those rows that _check_timestamp_order admits.
RECURSIVE ReadingSets(_, _)
ReadingSets(rows, n) ==
    IF n = 0
    THEN {{}}
    ELSE LET smaller == ReadingSets(rows, n - 1)
         IN smaller \cup {rs \cup {row} : rs \in smaller,
                                          row \in rows}

StoredReadings(rows, n) ==
    {rs \in ReadingSets(rows, n) :
        \A row \in rs : ReadingUnique(rs \ {row}, row)}

\* Counters that have counted at least one page, or are not reported.
CountedValues == {v \in CounterValues : \A c \in CounterTypes : v[c] # 0}

InitUsage ==
    /\ \E owner \in {OneCustomer, [l \in Locs |-> PartnerOf(l)]} : FleetLocations(owner)
    /\ printers = <<Device(1, 1), Device(NumLocs, 1)>>
    /\ readings \in StoredReadings(ReadingRows(DOMAIN printers, Timestamps, CountedValues),
                                    MaxReadings)
    /\ consumables = {}
    /\ alerts = <<>>
    /\ last = NoExchange
    /\ NoBilling

NextUsage == CalculateUsageCall

SpecUsage == InitUsage /\ [][NextUsage]_vars

\* ------------------------------------------- usage over adjacent periods
\* One printer read up to MaxPeriodReadings times: before, within and after
\* any period. The first counter type counts from 0; the others are reported
\* or not.
PeriodValues ==
    {v \in CounterValues : \A c \in CounterTypes : c # 1 => v[c] \in {Absent, MaxValue}}

InitPeriods ==
    /\ FleetLocations(OneCustomer)
    /\ printers = <<Device(1, 1)>>
    /\ readings \in StoredReadings(ReadingRows(DOMAIN printers, Timestamps, PeriodValues),
                                    MaxPeriodReadings)
    /\ consumables = {}
    /\ alerts = <<>>
    /\ last = NoExchange
    /\ NoBilling

NextPeriods == CalculateUsageCall

SpecPeriods == InitPeriods /\ [][NextPeriods]_vars

\* ------------------------------------------------------- billing a customer
\* One customer with two printers in the first location and one in the
\* last; a price is configured for the first counter type only.
PriceTable == [p \in Partners |-> [c \in CounterTypes |-> IF c = 1 THEN MaxPrice ELSE Absent]]

BillingTimes == {DayEnd(1), DayStart(2)}
BillingValues == {v \in [CounterTypes -> {Absent} \cup (1..MaxValue)] :
                     v[1] # Absent /\ \A c \in CounterTypes : c > 1 => v[c] \in {Absent, 1}}

InitBilling ==
    /\ FleetLocations(OneCustomer)
    /\ printers = <<Device(1, 1), Device(1, 2), Device(NumLocs, 1)>>
    /\ readings \in StoredReadings(ReadingRows(DOMAIN printers, BillingTimes, BillingValues),
                                    MaxReadings)
    /\ consumables = {}
    /\ alerts = <<>>
    /\ last = NoExchange
    /\ prices = PriceTable
    /\ usage = NoUsage
    /\ reviews = <<>>
    /\ invoices = <<>>
    /\ raised = NoError

NextBilling ==
    \/ WizardGenerateInvoice
    \/ Confirm
    \/ GenerateInvoice
    \/ RecalculateAll
    \/ Cancel
    \/ SetToDraft

SpecBilling == InitBilling /\ [][NextBilling]_vars

\* ------------------------------------------------- invoicing a reviewed period
\* The same customer with readings taken at the end of the first day, of a
\* first counter that has counted nothing or MaxValue pages; the user may
\* exclude and include lines of the review, and confirm it, before the
\* invoice is generated.
InvoiceValues == {v \in [CounterTypes -> {Absent} \cup (0..MaxValue)] :
                     /\ v[1] \in {0, MaxValue}
                     /\ \A c \in CounterTypes : c > 1 => v[c] \in {Absent, 1}}

InitInvoice ==
    /\ FleetLocations(OneCustomer)
    /\ printers = BillingFleet
    /\ readings \in StoredReadings(ReadingRows(DOMAIN printers, {DayEnd(1)}, InvoiceValues),
                                    MaxReadings)
    /\ consumables = {}
    /\ alerts = <<>>
    /\ last = NoExchange
    /\ prices = PriceTable
    /\ usage = NoUsage
    /\ reviews = <<>>
    /\ invoices = <<>>
    /\ raised = NoError

NextInvoice ==
    \/ WizardGenerateInvoice
    \/ WriteIncludeInInvoice
    \/ Confirm
    \/ GenerateInvoice

SpecInvoice == InitInvoice /\ [][NextInvoice]_vars

\* ================================================================= claims
\* C1: a sync request without the X-Location-Token header is answered 401; a
\* request whose token matches no location that is active, or matches a
\* location whose token is deactivated, is answered 403; a request answered
\* 401 or 403 creates and modifies nothing, token statistics included.
C1_RejectedRequests ==
    [][/\ (last' # NoExchange /\ last'.token = None) => last'.status = 401
       /\ (/\ last' # NoExchange
           /\ last'.token # None
           /\ \A l \in Locs : access_token[l] = last'.token =>
                                  (~is_active[l] \/ ~token_active[l]))
          => last'.status = 403
       /\ (last'.status = 401 \/ last'.status = 403) =>
              UNCHANGED <<locvars, datavars>>]_vars

\* C1 witness: a request carrying the token of an active location whose token
\* is deactivated was answered 403 while printers were on record.
C1_Witness ==
    /\ last.status = 403
    /\ \E l \in Locs : access_token[l] = last.token /\ is_active[l] /\ ~token_active[l]
    /\ printers # <<>>

\* C2 (original): after action_deactivate_token on a location no request
\* with its token is accepted until action_activate_token is called on it,
\* and after action_activate_token the token is accepted again.
C2_DeactivatedUntilActivated(requireActive) ==
    \A l \in Locs :
        /\ action_deactivate_token(l) => ~token_active'[l]
        /\ (~token_active[l] /\ token_active'[l]) => action_activate_token(l)
        /\ (~token_active[l] /\ access_token[l] # None /\ last' # NoExchange
            /\ last'.token = access_token[l])
           => (last'.status = 403 /\ UNCHANGED datavars)
        /\ (action_activate_token(l) /\ ~token_active[l] /\ access_token[l] # None
            /\ (requireActive => is_active[l]))
           => (validate_location_token(access_token[l]).status = 200)'

C2_Original == [][C2_DeactivatedUntilActivated(FALSE)]_vars

\* C2 (amended): as C2, where the token is accepted again after
\* action_activate_token provided the location itself is active
\* (is_active = true).
C2_Amended == [][C2_DeactivatedUntilActivated(TRUE)]_vars

\* C2 witness: the token of a location that was deactivated was presented and
\* answered 403, with printers on record.
C2_Witness ==
    /\ last.status = 403
    /\ last.token # None
    /\ \E l \in Locs : access_token[l] = last.token /\ ~token_active[l]
    /\ printers # <<>>

\* C3: after action_generate_token the replaced token is answered 403 from
\* then on, the location is authenticated by its new token only, and
\* token_requests_count is 0 and token_last_used is empty until the next
\* authorized request of that location.
C3_GeneratedToken ==
    /\ [](\A t \in old_tokens : validate_location_token(t).status = 403)
    /\ [](\A t \in Headers : \A l \in Locs :
            (validate_location_token(t).status = 200
             /\ validate_location_token(t).location = l) => t = access_token[l])
    /\ [][\A l \in Locs :
            /\ action_generate_token(l) =>
                   /\ token_requests_count'[l] = 0
                   /\ token_last_used'[l] = None
                   /\ access_token'[l] # access_token[l]
                   /\ (access_token[l] # None => access_token[l] \in old_tokens')
            /\ (/\ token_requests_count[l] = 0
                /\ token_last_used[l] = None
                /\ ~(last' # NoExchange /\ last'.status = 200
                     /\ validate_location_token(last'.token).location = l))
               => (token_requests_count'[l] = 0 /\ token_last_used'[l] = None)]_vars

\* C3 witness: a replaced token was presented and answered 403 while the
\* location's statistics stand at zero.
C3_Witness ==
    /\ last.status = 403
    /\ last.token \in old_tokens
    /\ \E l \in Locs : /\ access_token[l] # None
                       /\ access_token[l] > NumLocs
                       /\ token_requests_count[l] = 0
                       /\ token_last_used[l] = None

\* The location a printer row belongs to.
LocationOfPrinter(ps, id) == ps[id].location_id

\* C4: a request authorized with the token of location L creates or modifies
\* only printers of L and readings, consumables and alerts of printers of L;
\* every printer of another location, and each of its readings, consumables
\* and alerts, is left as it was.
C4_OnlyOwnLocation ==
    [][(last' # NoExchange /\ last'.status = 200) =>
        LET L == validate_location_token(last'.token).location
        IN /\ \A i \in DOMAIN printers :
                  /\ i \in DOMAIN printers'
                  /\ printers[i].location_id # L => printers'[i] = printers[i]
                  /\ printers'[i] # printers[i] => printers'[i].location_id = L
           /\ \A i \in DOMAIN printers' \ DOMAIN printers : printers'[i].location_id = L
           /\ \A r \in readings \ readings' : LocationOfPrinter(printers, r.printer_id) = L
           /\ \A r \in readings' \ readings : LocationOfPrinter(printers', r.printer_id) = L
           /\ \A c \in consumables \ consumables' :
                  LocationOfPrinter(printers, c.printer_id) = L
           /\ \A c \in consumables' \ consumables :
                  LocationOfPrinter(printers', c.printer_id) = L
           /\ \A i \in DOMAIN alerts : i \in DOMAIN alerts' /\ alerts'[i] = alerts[i]
           /\ \A i \in DOMAIN alerts' \ DOMAIN alerts :
                  LocationOfPrinter(printers', alerts'[i].printer_id) = L]_vars

\* C4 witness: the first location has synced a printer, a reading, a
\* consumable or an alert under an IP address that a printer of the last
\* location also has, and that printer still has its rows.
C4_Witness ==
    /\ last.status = 200
    /\ last.token = access_token[1]
    /\ \E i, j \in DOMAIN printers :
          /\ printers[i].location_id = 1
          /\ printers[j].location_id = NumLocs
          /\ printers[i].ip_address = printers[j].ip_address
          /\ \E r \in readings : r.printer_id = i
          /\ \E r \in readings : r.printer_id = j
          /\ \E c \in consumables : c.printer_id = j
          /\ \E a \in DOMAIN alerts : alerts[a].printer_id = j

\* ------------------------------------------------------------ usage claims
\* The readings of printer p from the start of the date_from day to the end
\* of the date_to day, and those before the date_from day.
ReadingsWithin(p, date_from, date_to) ==
    {r \in readings : /\ r.printer_id = p
                      /\ r.timestamp >= date_from * SlotsPerDay
                      /\ r.timestamp < (date_to + 1) * SlotsPerDay}
ReadingsBefore(p, date_from) ==
    {r \in readings : r.printer_id = p /\ r.timestamp < date_from * SlotsPerDay}
Latest(rs) == CHOOSE r \in rs : \A q \in rs : q.timestamp <= r.timestamp
\* The value a reading reports for a counter type, 0 when it reports none.
Reported(r, c) == IF r.counters[c] = Absent THEN 0 ELSE r.counters[c]
Called == usage.partner # None
PrintersOfCall == {p \in DOMAIN printers : partner_id[printers[p].location_id] = usage.partner}
EntryOf(p, c) ==
    {k \in UNION {e.counters : e \in {d \in usage.result : d.printer = p}} :
        k.counter_type_id = c}

\* C5: calculate_usage_by_printer(partner, date_from, date_to) returns an
\* entry for a printer of the partner if and only if that printer has a
\* reading with at least one counter whose timestamp lies between the start
\* of date_from and the end of the date_to day; a printer with no reading in
\* the period is never returned, and neither is a printer of another partner.
C5_ReturnedPrinters ==
    Called =>
        /\ \A e \in usage.result : e.printer \in PrintersOfCall
        /\ \A p \in PrintersOfCall :
               (\E e \in usage.result : e.printer = p)
               <=> (\E r \in ReadingsWithin(p, usage.date_from, usage.date_to) :
                       r.counters # NoCounters)

\* C5 witness: a call returned one printer of the partner for a reading taken
\* in the last slot of the date_to day, and left out another printer of the
\* partner whose only reading lies outside the period.
C5_Witness ==
    /\ Called
    /\ \E e \in usage.result :
           \E r \in readings : /\ r.printer_id = e.printer
                               /\ r.timestamp = DayEnd(usage.date_to)
    /\ \E p \in PrintersOfCall :
           /\ \A e \in usage.result : e.printer # p
           /\ \E r \in readings : r.printer_id = p /\ r.counters # NoCounters

C7_SeveralReadings ==
    Called =>
        \A p \in PrintersOfCall :
            LET within == ReadingsWithin(p, usage.date_from, usage.date_to)
            IN Cardinality(within) > 1 =>
                   \A c \in CounterTypes :
                       LET values == {r.counters[c] : r \in {q \in within :
                                                               q.counters[c] # Absent}}
                       IN values # {} =>
                              /\ EntryOf(p, c) # {}
                              /\ \A k \in EntryOf(p, c) :
                                     /\ \A v \in values : k.counter_start <= v
                                     /\ k.counter_start \in values
                                     /\ \A v \in values : k.counter_end >= v
                                     /\ k.counter_end \in values

\* ---------------------------------------------------------- billing claims
StoredCounters ==
    UNION {counters_of(reviews[id].line_ids) : id \in DOMAIN reviews}
ReturnedCounters ==
    UNION {UNION {e.counters : e \in calculate_usage_by_printer(readings, printers, partner,
                                                                date_from, date_to)} :
              partner \in Partners, date_from \in Days, date_to \in Days}

\* C8: billable page counts are never negative: every counter entry that
\* calculate_usage_by_printer returns has total_pages = max(0, counter_end -
\* counter_start), 0 when the counter went backwards, and every stored
\* billing-review counter satisfies 0 <= counter_start <= counter_end,
\* total_pages = counter_end - counter_start and subtotal = total_pages *
\* unit_price.
C8_NeverNegative ==
    /\ \A k \in ReturnedCounters :
           /\ k.total_pages >= 0
           /\ k.counter_end >= k.counter_start
                  => k.total_pages = k.counter_end - k.counter_start
           /\ k.counter_end < k.counter_start => k.total_pages = 0
    /\ \A k \in StoredCounters :
           /\ 0 <= k.counter_start
           /\ k.counter_start <= k.counter_end
           /\ k.total_pages = k.counter_end - k.counter_start
           /\ k.subtotal = k.total_pages * k.unit_price

\* C8 witness: a review stores a counter with pages to bill at a price, while
\* the readings also hold a counter that went backwards in some period.
C8_Witness ==
    /\ \E k \in StoredCounters : k.total_pages > 0 /\ k.subtotal > 0
    /\ \E k \in ReturnedCounters : k.counter_end < k.counter_start

\* C9: the wizard's action_generate_invoice raises a UserError and creates
\* no review when calculate_usage_by_printer returns nothing; whenever it
\* returns at least one printer, exactly one review in state 'draft' is
\* created, with exactly one line per returned printer and on each line
\* exactly one counter per returned counter type, carrying that entry's
\* counter_start and counter_end and the partner's configured unit price
\* (0.0 when none is configured).
C9_WizardCall(partner, date_from, date_to) ==
    LET usage_data == calculate_usage_by_printer(readings, printers, partner,
                                                 date_from, date_to)
        review == reviews'[Len(reviews')]
    IN IF usage_data = {}
       THEN /\ raised' = "No hay datos de uso para el período seleccionado."
            /\ reviews' = reviews
       ELSE /\ Len(reviews') = Len(reviews) + 1
            /\ SubSeq(reviews', 1, Len(reviews)) = reviews
            /\ review.state = "draft"
            /\ {line.printer_id : line \in review.line_ids}
                   = {e.printer : e \in usage_data}
            /\ Cardinality(review.line_ids) = Cardinality(usage_data)
            /\ \A line \in review.line_ids : \A e \in usage_data :
                   e.printer = line.printer_id =>
                       /\ Cardinality(line.counter_line_ids) = Cardinality(e.counters)
                       /\ \A k \in e.counters :
                              \E counter \in line.counter_line_ids :
                                  /\ counter.counter_type_id = k.counter_type_id
                                  /\ counter.counter_start = k.counter_start
                                  /\ counter.counter_end = k.counter_end
                                  /\ counter.unit_price =
                                         IF prices[partner][k.counter_type_id] = Absent
                                         THEN 0
                                         ELSE prices[partner][k.counter_type_id]

C9_WizardCreatesReview ==
    [][\A partner \in Partners, date_from \in BillingDays, date_to \in BillingDays :
           (\E group_by_location \in BOOLEAN, only_not_billed \in BOOLEAN :
                wizard_action_generate_invoice(partner, date_from, date_to,
                                               group_by_location, only_not_billed))
           => C9_WizardCall(partner, date_from, date_to)]_vars

\* C10: a billing review generates at most one invoice: over any sequence of
\* action_confirm, action_generate_invoice, action_cancel,
\* action_set_to_draft and action_recalculate_all on a review,
\* action_generate_invoice creates an invoice at most once, and every later
\* call fails with 'Esta revisión ya tiene una factura generada' without
\* creating an invoice.
C10_AtMostOneInvoice ==
    [][\A id \in ReviewIds :
           (/\ id \in DOMAIN reviews
            /\ \E i \in DOMAIN invoices : invoices[i].review = id
            /\ action_generate_invoice(id))
           => (/\ raised' = "Esta revisión ya tiene una factura generada"
               /\ invoices' = invoices)]_vars

\* The refusals of C11: action_cancel on a review in state 'invoiced' and
\* action_set_to_draft on a review with invoice_id set raise their UserError
\* and leave state, invoice_id and lines as they were.
Refusals(id) ==
    /\ (reviews[id].state = "invoiced" /\ action_cancel(id))
       => (/\ raised' = "No se puede cancelar una revisión que ya tiene factura generada"
           /\ reviews' = reviews)
    /\ (reviews[id].invoice_id # None /\ action_set_to_draft(id))
       => (/\ raised' = "No se puede volver a borrador una revisión con factura"
           /\ reviews' = reviews)

\* No step cancels or returns to draft a review that has an invoice.
StaysInvoiced(id) ==
    reviews[id].invoice_id # None =>
        /\ reviews'[id].state = "cancelled" => reviews[id].state = "cancelled"
        /\ reviews'[id].state = "draft" => reviews[id].state = "draft"

\* C11: a review that has a generated invoice can neither be cancelled nor
\* returned to draft: action_cancel on a review in state 'invoiced' and
\* action_set_to_draft on a review with invoice_id set both raise a UserError
\* and leave state, invoice_id and lines unchanged.
C11_InvoicedReviewIsFinal ==
    [][\A id \in ReviewIds :
           id \in DOMAIN reviews => (Refusals(id) /\ StaysInvoiced(id))]_vars

\* The lines of a review that count for its invoice, the locations they
\* are in, and the sum of estimated_amount over some of them.
Billable(id) ==
    {l \in reviews[id].line_ids : l.include_in_invoice = TRUE /\ line_total_pages(l) > 0}
LocationOf(l) == printers[l.printer_id].location_id
AmountOf(ls) ==
    SumOver({[printer_id |-> l.printer_id, amount |-> estimated_amount(l)] : l \in ls},
            "amount")

C12_InvoiceOf(id) ==
    LET created == invoices'[Len(invoices')].invoice_line_ids
    IN IF Billable(id) = {}
       THEN /\ raised' = "No hay impresoras con páginas para facturar"
            /\ invoices' = invoices
       ELSE /\ Len(invoices') = Len(invoices) + 1
            /\ SubSeq(invoices', 1, Len(invoices)) = invoices
            /\ UNION {il.printers : il \in created}
                   = {l.printer_id : l \in Billable(id)}
            /\ IF reviews[id].group_by_location
               THEN /\ Cardinality(created)
                          = Cardinality({LocationOf(l) : l \in Billable(id)})
                    /\ \A loc \in {LocationOf(l) : l \in Billable(id)} :
                           \E il \in created :
                               /\ il.location_name = loc
                               /\ il.printers = {l.printer_id : l \in
                                       {k \in Billable(id) : LocationOf(k) = loc}}
                               /\ il.price_unit =
                                      AmountOf({k \in Billable(id) : LocationOf(k) = loc})
               ELSE /\ Cardinality(created) = Cardinality(Billable(id))
                    /\ \A l \in Billable(id) :
                           \E il \in created :
                               /\ il.printers = {l.printer_id}
                               /\ il.price_unit = estimated_amount(l)

\* C12: the invoice action_generate_invoice creates is built only from the
\* lines with include_in_invoice = true and total_pages > 0, and when there
\* is none a UserError is raised and no invoice is created; with
\* group_by_location it has exactly one invoice line per distinct location
\* among those lines, priced at the sum of estimated_amount of that
\* location's lines; without it, exactly one invoice line per such review
\* line, priced at that line's estimated_amount.
C12_InvoiceLines ==
    [][\A id \in ReviewIds :
           (/\ id \in DOMAIN reviews
            /\ reviews[id].state # "invoiced"
            /\ action_generate_invoice(id))
           => C12_InvoiceOf(id)]_vars

\* C12 witness: an invoice grouped by location has a line that adds up the
\* amounts of two printers of one location.
C12_Witness ==
    \E i \in DOMAIN invoices :
        /\ reviews[invoices[i].review].group_by_location
        /\ \E il \in invoices[i].invoice_line_ids :
               /\ Cardinality(il.printers) = 2
               /\ il.price_unit = 2 * MaxValue * MaxPrice

\* ------------------------------------------------- adjacent billing periods
\* All the readings of printer p carry counter type c, and its values do not
\* decrease as time goes on.
CarriedThroughout(p, c) ==
    /\ \A r \in readings : r.printer_id = p => r.counters[c] # Absent
    /\ \A r, q \in readings :
           (r.printer_id = p /\ q.printer_id = p /\ r.timestamp <= q.timestamp)
           => r.counters[c] <= q.counters[c]

\* The total_pages an answer of calculate_usage_by_printer holds for printer
\* p and counter type c, 0 when the printer or the counter is not in it.
TotalIn(result, p, c) ==
    LET found == {k \in UNION {e.counters : e \in {d \in result : d.printer = p}} :
                     k.counter_type_id = c}
    IN IF found = {} THEN 0 ELSE (CHOOSE k \in found : TRUE).total_pages

\* What calculate_usage_by_printer answers for the partner of the last call
\* over another period, on the same readings.
AnswerOver(date_from, date_to) ==
    calculate_usage_by_printer(readings, printers, usage.partner, date_from, date_to)

====
